---- MODULE Spec2Model ----
(***************************************************************************)
(* Model of the two components of the repository:                          *)
(*   - RequestIDMiddleware.dispatch  (src/src/api/api/middleware.py)       *)
(*   - prompt_template_config        (src/src/api/rag/utils/               *)
(*                                    prompt_management.py)                *)
(* The middleware is modelled as one asyncio task per request, each with   *)
(* its own local variables and program counter; the event loop runs one    *)
(* task at a time and a task gives the loop up only at an await.           *)
(***************************************************************************)
EXTENDS Integers, Sequences, FiniteSets, TLC

(***************************************************************************)
(* Bounds                                                                  *)
(***************************************************************************)
NumRequests == 2
NumUuids == 2
NumCalls == 2
MaxLines == 3

Requests == 1..NumRequests
Calls == 1..NumCalls

VARIABLES
    pc,          \* pc[r]: position of request r's dispatch coroutine
    running,     \* the task that holds the event loop, or NoTask
    issued,      \* values the uuid generator has returned so far
    request,     \* request[r]: the Request object (method, path, state)
    request_id,  \* request_id[r]: dispatch's local variable
    response,    \* response[r]: dispatch's local variable
    logs,        \* records handed to logger.info, in order
    outcome,     \* outcome[r]: what dispatch gave its caller
    passed,      \* passed[r]: the request as it was when handed to call_next
    produced,    \* produced[r]: the response as call_next returned it
    thrown,      \* thrown[r]: the exception call_next raised
    calls,       \* calls[r]: number of call_next invocations
    mwWrites,    \* mwWrites[r]: attribute writes dispatch made on the request
    headerSets   \* headerSets[r]: header assignments dispatch made

VARIABLES
    fs,                \* fs[path]: the file at that path, or NoFile
    call,              \* the number of the current call (0 before the first)
    lpc,               \* position of the current call
    yaml_file,         \* the current call's arguments
    prompt_key,
    file,              \* the current call's locals: the file handle,
    config,            \*   the parsed document,
    template_content,  \*   the entry looked up,
    template,          \*   the Template object (by identity)
    heap,              \* the Template objects created so far, by identity
    result,            \* result[c]: what call c gave its caller
    reads,             \* reads[c]: number of reads of the file by call c
    steps              \* steps[c]: the steps call c has attempted

ldVars == <<fs, call, lpc, yaml_file, prompt_key, file, config,
            template_content, template, heap, result, reads, steps>>

mwVars == <<pc, running, issued, request, request_id, response, logs,
            outcome, passed, produced, thrown, calls, mwWrites, headerSets>>

(***************************************************************************)
(* Values                                                                  *)
(***************************************************************************)
NoTask == 0
NoId == ""
Unset == "<unset>"
Methods == {"GET", "POST"}
UrlPaths == {"/rag"}
Exceptions == {"RuntimeError", "HTTPException"}
NoException == ""

EmptyState == [request_id |-> Unset, user |-> Unset]
NoRequest == [method |-> "", path |-> "", state |-> EmptyState]
NoResponse == [status_code |-> 0, body |-> "", headers |-> <<>>]
Pending == [kind |-> "pending", response |-> NoResponse, exc |-> ""]

\* str(uuid): the textual form of a generated value, in hexadecimal digits
HexDigits == <<"0", "1", "2", "3", "4", "5", "6", "7",
               "8", "9", "a", "b", "c", "d", "e", "f">>

RECURSIVE HexText(_)
HexText(u) ==
    IF u < 16 THEN HexDigits[u + 1]
    ELSE HexText(u \div 16) \o HexDigits[(u % 16) + 1]

str(u) == HexText(u)

\* The values the generator can return
Uuids == 0..(NumUuids - 1)

\* Variant: a generator that may repeat a value it has returned before
uuid4Any(used) == Uuids

\* uuid.uuid4(): the values the generator may return, given those it has
\* returned before (a fresh value every time)
uuid4(used) == Uuids \ used

\* str.lower() on the header names that occur
lower(name) ==
    CASE name = "X-Request-ID" -> "x-request-id"
      [] name = "Content-Type" -> "content-type"
      [] OTHER -> name

\* The positions of the raw header list whose key is k, in increasing order
RECURSIVE FoundIndexes(_, _, _)
FoundIndexes(list, k, i) ==
    IF i > Len(list) THEN <<>>
    ELSE IF list[i][1] = k THEN <<i>> \o FoundIndexes(list, k, i + 1)
    ELSE FoundIndexes(list, k, i + 1)

\* Variant: the header is appended (headers.append) instead of assigned
SetItemAppend(list, key, value) == Append(list, <<lower(key), value>>)

\* Variant: the header mapping is replaced wholesale by the one entry
SetItemReplaceAll(list, key, value) == <<<<lower(key), value>>>>

\* response.headers[key] = value  (MutableHeaders.__setitem__): the first
\* entry of that name is replaced, later ones of that name removed, and the
\* entry is appended when there is none
SetItem(list, key, value) ==
    LET k == lower(key)
        found == FoundIndexes(list, k, 1)
    IN  IF found = <<>> THEN Append(list, <<k, value>>)
        ELSE LET kept == SelectSeq([i \in 1..Len(list) |-> i],
                           LAMBDA i : list[i][1] # k \/ i = found[1])
             IN  [j \in 1..Len(kept) |->
                    IF kept[j] = found[1] THEN <<k, value>> ELSE list[kept[j]]]

\* The record logger.info receives: the f-string's prefix and its three fields
LogRecord(r, event, req, id) ==
    [task |-> r, event |-> event, method |-> req.method, path |-> req.path,
     request_id |-> id]

\* What the downstream pipeline may answer with, and the request.state it
\* leaves behind: a response without the header, and one that already has it
\* (twice)
DownstreamReturns(st) ==
    { [resp |-> [status_code |-> 200, body |-> "ok",
                 headers |-> <<<<"content-type", "application/json">>>>],
       state |-> st],
      [resp |-> [status_code |-> 404, body |-> "not found",
                 headers |-> <<<<"x-request-id", "a">>,
                               <<"content-type", "text/plain">>,
                               <<"x-request-id", "b">>>>],
       state |-> [request_id |-> "spoofed", user |-> "alice"]] }

(***************************************************************************)
(* RequestIDMiddleware.dispatch                                            *)
(***************************************************************************)
MwInit ==
    /\ pc = [r \in Requests |-> "idle"]
    /\ running = NoTask
    /\ issued = {}
    /\ request = [r \in Requests |-> NoRequest]
    /\ request_id = [r \in Requests |-> NoId]
    /\ response = [r \in Requests |-> NoResponse]
    /\ logs = <<>>
    /\ outcome = [r \in Requests |-> Pending]
    /\ passed = [r \in Requests |-> NoRequest]
    /\ produced = [r \in Requests |-> NoResponse]
    /\ thrown = [r \in Requests |-> NoException]
    /\ calls = [r \in Requests |-> 0]
    /\ mwWrites = [r \in Requests |-> <<>>]
    /\ headerSets = [r \in Requests |-> 0]

\* The framework starts dispatch(request, call_next) for an inbound request
Arrive(r) ==
    /\ pc[r] = "idle"
    /\ running = NoTask
    /\ \E m \in Methods, p \in UrlPaths :
          request' = [request EXCEPT ![r] =
                         [method |-> m, path |-> p, state |-> EmptyState]]
    /\ pc' = [pc EXCEPT ![r] = "L13"]
    /\ running' = r
    /\ UNCHANGED <<issued, request_id, response, logs, outcome, passed,
                   produced, thrown, calls, mwWrites, headerSets>>
    /\ UNCHANGED ldVars

\* request_id = str(uuid.uuid4())
Generate(r) ==
    /\ pc[r] = "L13"
    /\ running = r
    /\ \E u \in uuid4(issued) :
          /\ request_id' = [request_id EXCEPT ![r] = str(u)]
          /\ issued' = issued \cup {u}
    /\ pc' = [pc EXCEPT ![r] = "L16"]
    /\ UNCHANGED <<running, request, response, logs, outcome, passed,
                   produced, thrown, calls, mwWrites, headerSets>>
    /\ UNCHANGED ldVars

\* request.state.request_id = request_id
StoreState(r) ==
    /\ pc[r] = "L16"
    /\ running = r
    /\ request' = [request EXCEPT ![r].state.request_id = request_id[r]]
    /\ mwWrites' = [mwWrites EXCEPT
                      ![r] = Append(@, <<"state.request_id", request_id[r]>>)]
    /\ pc' = [pc EXCEPT ![r] = "L19"]
    /\ UNCHANGED <<running, issued, request_id, response, logs, outcome,
                   passed, produced, thrown, calls, headerSets>>
    /\ UNCHANGED ldVars

\* logger.info(f"Request started: ...")
LogStart(r) ==
    /\ pc[r] = "L19"
    /\ running = r
    /\ logs' = Append(logs,
                  LogRecord(r, "Request started", request[r], request_id[r]))
    /\ pc' = [pc EXCEPT ![r] = "L22"]
    /\ UNCHANGED <<running, issued, request, request_id, response, outcome,
                   passed, produced, thrown, calls, mwWrites, headerSets>>
    /\ UNCHANGED ldVars

\* Variant: call_next is awaited before the identifier is stored
CallNextBeforeStore(r) ==
    /\ pc[r] = "L16"
    /\ running = r
    /\ calls' = [calls EXCEPT ![r] = @ + 1]
    /\ passed' = [passed EXCEPT ![r] = request[r]]
    /\ pc' = [pc EXCEPT ![r] = "await"]
    /\ running' = NoTask
    /\ UNCHANGED <<issued, request, request_id, response, logs, outcome,
                   produced, thrown, mwWrites, headerSets>>
    /\ UNCHANGED ldVars

\* response = await call_next(request): the call is made and the task suspends
CallNext(r) ==
    /\ pc[r] = "L22"
    /\ running = r
    /\ calls' = [calls EXCEPT ![r] = @ + 1]
    /\ passed' = [passed EXCEPT ![r] = request[r]]
    /\ pc' = [pc EXCEPT ![r] = "await"]
    /\ running' = NoTask
    /\ UNCHANGED <<issued, request, request_id, response, logs, outcome,
                   produced, thrown, mwWrites, headerSets>>
    /\ UNCHANGED ldVars

\* call_next returns a response: the task resumes with it
Resume(r) ==
    /\ pc[r] = "await"
    /\ running = NoTask
    /\ \E d \in DownstreamReturns(request[r].state) :
          /\ response' = [response EXCEPT ![r] = d.resp]
          /\ produced' = [produced EXCEPT ![r] = d.resp]
          /\ request' = [request EXCEPT ![r].state = d.state]
    /\ pc' = [pc EXCEPT ![r] = "L25"]
    /\ running' = r
    /\ UNCHANGED <<issued, request_id, logs, outcome, passed, thrown, calls,
                   mwWrites, headerSets>>
    /\ UNCHANGED ldVars

\* Variant: the completion record is logged in a finally block
PropagateAfterCompletionLog(r) ==
    /\ pc[r] = "await"
    /\ running = NoTask
    /\ \E e \in Exceptions :
          /\ thrown' = [thrown EXCEPT ![r] = e]
          /\ outcome' = [outcome EXCEPT
                           ![r] = [kind |-> "raise", response |-> NoResponse,
                                   exc |-> e]]
    /\ logs' = Append(logs,
                  LogRecord(r, "Request completed", request[r], request_id[r]))
    /\ pc' = [pc EXCEPT ![r] = "raised"]
    /\ UNCHANGED <<running, issued, request, request_id, response,
                   passed, produced, calls, mwWrites, headerSets>>
    /\ UNCHANGED ldVars

\* Variant: the failure is caught and re-raised as a RuntimeError
PropagateWrapped(r) ==
    /\ pc[r] = "await"
    /\ running = NoTask
    /\ \E e \in Exceptions :
          /\ thrown' = [thrown EXCEPT ![r] = e]
          /\ outcome' = [outcome EXCEPT
                           ![r] = [kind |-> "raise", response |-> NoResponse,
                                   exc |-> "RuntimeError"]]
    /\ pc' = [pc EXCEPT ![r] = "raised"]
    /\ UNCHANGED <<running, issued, request, request_id, response, logs,
                   passed, produced, calls, mwWrites, headerSets>>
    /\ UNCHANGED ldVars

\* call_next raises: there is no handler in dispatch, so the exception leaves
\* dispatch from line 22
Propagate(r) ==
    /\ pc[r] = "await"
    /\ running = NoTask
    /\ \E e \in Exceptions :
          /\ thrown' = [thrown EXCEPT ![r] = e]
          /\ outcome' = [outcome EXCEPT
                           ![r] = [kind |-> "raise", response |-> NoResponse,
                                   exc |-> e]]
    /\ pc' = [pc EXCEPT ![r] = "raised"]
    /\ UNCHANGED <<running, issued, request, request_id, response, logs,
                   passed, produced, calls, mwWrites, headerSets>>
    /\ UNCHANGED ldVars

\* response.headers["X-Request-ID"] = request_id
SetHeader(r) ==
    /\ pc[r] = "L25"
    /\ running = r
    /\ response' = [response EXCEPT
                      ![r].headers = SetItem(@, "X-Request-ID", request_id[r])]
    /\ headerSets' = [headerSets EXCEPT ![r] = @ + 1]
    /\ pc' = [pc EXCEPT ![r] = "L28"]
    /\ UNCHANGED <<running, issued, request, request_id, logs, outcome,
                   passed, produced, thrown, calls, mwWrites>>
    /\ UNCHANGED ldVars

\* logger.info(f"Request completed: ...")
LogCompleted(r) ==
    /\ pc[r] = "L28"
    /\ running = r
    /\ logs' = Append(logs,
                  LogRecord(r, "Request completed", request[r], request_id[r]))
    /\ pc' = [pc EXCEPT ![r] = "L30"]
    /\ UNCHANGED <<running, issued, request, request_id, response, outcome,
                   passed, produced, thrown, calls, mwWrites, headerSets>>
    /\ UNCHANGED ldVars

\* return response
Return(r) ==
    /\ pc[r] = "L30"
    /\ running = r
    /\ outcome' = [outcome EXCEPT
                     ![r] = [kind |-> "return", response |-> response[r],
                             exc |-> ""]]
    /\ pc' = [pc EXCEPT ![r] = "returned"]
    /\ running' = NoTask
    /\ UNCHANGED <<issued, request, request_id, response, logs, passed,
                   produced, thrown, calls, mwWrites, headerSets>>
    /\ UNCHANGED ldVars

(***************************************************************************)
(* prompt_template_config: values                                          *)
(***************************************************************************)
\* Python values: None, str, dict
PyNone == [tag |-> "NoneType", val |-> <<>>]
PyStr(src) == [tag |-> "str", val |-> src]
PyDict(m) == [tag |-> "dict", val |-> m]

\* The outcome of a step: a value, or an exception of some kind
Ok(v) == [ok |-> TRUE, val |-> v, err |-> ""]
Fail(kind) == [ok |-> FALSE, val |-> PyNone, err |-> kind]

\* d[k] = v on a dict
Put(m, k, v) == [x \in (DOMAIN m) \cup {k} |-> IF x = k THEN v ELSE m[x]]

\* Template text is a sequence of lexemes: literal text, "{{", "}}", a name,
\* white space.  The text itself is the concatenation of the lexemes.
Data(t) == [k |-> "data", s |-> t]
Begin == [k |-> "begin", s |-> "{{"]
End == [k |-> "end", s |-> "}}"]
Name(n) == [k |-> "name", s |-> n]
Ws == [k |-> "ws", s |-> " "]

RECURSIVE Text(_)
Text(src) == IF src = <<>> THEN "" ELSE Head(src).s \o Text(Tail(src))

HelloSource == <<Data("Hello, "), Begin, Ws, Name("name"), Ws, End, Data("!")>>
UnbalancedSource == <<Data("Bye, "), Begin, Ws, Name("name")>>
PlainSource == <<Data("Hi"), Data("!"), End>>

\* A line of the YAML file, at indentation 0 or 1: "key:" (kind empty) or
\* "key: "<text>"" with a double-quoted scalar (kind str)
Line(indent, key, kind, src) ==
    [indent |-> indent, key |-> key, kind |-> kind, src |-> src]

LineAlphabet ==
    { Line(0, "prompts", "empty", <<>>),
      Line(1, "greeting", "str", HelloSource),
      Line(1, "farewell", "str", UnbalancedSource),
      Line(1, "greeting", "str", PlainSource),
      Line(0, "greeting", "str", PlainSource),
      Line(1, "greeting", "empty", <<>>) }

(***************************************************************************)
(* prompt_template_config: the library calls it makes                      *)
(***************************************************************************)
\* The Python value of the scalar a line carries
ScalarOf(line) == IF line.kind = "str" THEN PyStr(line.src) ELSE PyNone

\* The block mapping the lines from position i on build, given the top-level
\* dict so far and the top-level key whose nested mapping is open ("" when
\* none is).  A later duplicate of a key replaces the earlier entry.
RECURSIVE BuildMapping(_, _, _, _)
BuildMapping(lines, i, top, open) ==
    IF i > Len(lines) THEN Ok(PyDict(top))
    ELSE LET line == lines[i] IN
         IF line.indent = 0
         THEN BuildMapping(lines, i + 1, Put(top, line.key, ScalarOf(line)),
                           IF line.kind = "empty" THEN line.key ELSE "")
         ELSE IF open = "" THEN Fail("YAMLError")
         ELSE LET cur == top[open]
                  nested == IF cur.tag = "dict" THEN cur.val ELSE <<>>
              IN  BuildMapping(lines, i + 1,
                      Put(top, open,
                          PyDict(Put(nested, line.key, ScalarOf(line)))),
                      open)

\* yaml.safe_load(file) on the lines read: None for an empty stream, a
\* YAMLError for a stream that is not YAML, a dict otherwise.  A stream whose
\* first line is indented is a flat mapping at that indentation.
safe_load(lines) ==
    IF lines = <<>> THEN Ok(PyNone)
    ELSE IF lines[1].indent = 1
    THEN IF \A i \in 1..Len(lines) : lines[i].indent = 1
         THEN BuildMapping([i \in 1..Len(lines) |->
                               [lines[i] EXCEPT !.indent = 0]], 1, <<>>, "")
         ELSE Fail("YAMLError")
    ELSE BuildMapping(lines, 1, <<>>, "")

\* v[key] with a str key
Subscript(v, key) ==
    IF v.tag = "dict"
    THEN IF key \in DOMAIN v.val THEN Ok(v.val[key]) ELSE Fail("KeyError")
    ELSE Fail("TypeError")

\* Variant: the entry is looked up at the top level of the document
LookupTopLevel(doc, key) == Subscript(doc, key)

\* config["prompts"][prompt_key]
Lookup(doc, key) ==
    LET prompts == Subscript(doc, "prompts")
    IN  IF prompts.ok THEN Subscript(prompts.val, key) ELSE prompts

\* The nodes of the template the lexemes from position i on parse to: mode
\* "data" outside {{ }}, "expr" after {{, "close" after the expression
RECURSIVE ParseTemplate(_, _, _, _, _)
ParseTemplate(src, i, mode, var, nodes) ==
    IF i > Len(src)
    THEN IF mode = "data" THEN [ok |-> TRUE, nodes |-> nodes]
         ELSE [ok |-> FALSE, nodes |-> <<>>]
    ELSE LET lx == src[i] IN
         CASE mode = "data" ->
                IF lx.k = "begin"
                THEN ParseTemplate(src, i + 1, "expr", "", nodes)
                ELSE ParseTemplate(src, i + 1, "data", "",
                                   Append(nodes, [k |-> "data", s |-> lx.s]))
           [] mode = "expr" ->
                IF lx.k = "ws" THEN ParseTemplate(src, i + 1, "expr", "", nodes)
                ELSE IF lx.k = "name"
                THEN ParseTemplate(src, i + 1, "close", lx.s, nodes)
                ELSE [ok |-> FALSE, nodes |-> <<>>]
           [] OTHER ->
                IF lx.k = "ws"
                THEN ParseTemplate(src, i + 1, "close", var, nodes)
                ELSE IF lx.k = "end"
                THEN ParseTemplate(src, i + 1, "data", "",
                                   Append(nodes, [k |-> "var", s |-> var]))
                ELSE [ok |-> FALSE, nodes |-> <<>>]

\* Template(source): the compiled template, a TemplateSyntaxError for text
\* that does not parse, a TypeError for a source that is not a str
Template(source) ==
    IF source.tag # "str" THEN Fail("TypeError")
    ELSE LET parsed == ParseTemplate(source.val, 1, "data", "", <<>>)
         IN  IF parsed.ok THEN Ok([tag |-> "Template", val |-> parsed.nodes])
             ELSE Fail("TemplateSyntaxError")

\* template.render(**ctx): an undefined variable renders as the empty string
RECURSIVE render(_, _)
render(nodes, ctx) ==
    IF nodes = <<>> THEN ""
    ELSE LET n == Head(nodes)
             piece == IF n.k = "data" THEN n.s
                      ELSE IF n.s \in DOMAIN ctx THEN ctx[n.s] ELSE ""
         IN  piece \o render(Tail(nodes), ctx)

(***************************************************************************)
(* prompt_template_config                                                  *)
(***************************************************************************)
FilePaths == {"prompts.yaml"}
PromptKeys == {"greeting", "farewell"}

RECURSIVE SeqsUpTo(_, _)
SeqsUpTo(S, n) ==
    IF n = 0 THEN {<<>>}
    ELSE LET shorter == SeqsUpTo(S, n - 1)
         IN  shorter \cup {Append(q, x) : q \in shorter, x \in S}

Contents == SeqsUpTo(LineAlphabet, MaxLines)

NoFile == [exists |-> FALSE, lines |-> <<>>]
FileOf(lines) == [exists |-> TRUE, lines |-> lines]
Files == {NoFile} \cup {FileOf(lines) : lines \in Contents}

NoObject == 0
NoValue == [tag |-> "unbound", val |-> <<>>]
NoResult == [kind |-> "pending", template |-> NoObject, err |-> ""]

\* Variant: a missing file is read as an empty one
OpenLenient(files, path) == Ok(PyNone)

\* open(yaml_file, "r")
Open(files, path) ==
    IF files[path].exists THEN Ok(PyNone) ELSE Fail("FileNotFoundError")

\* Variant: the first Template object is kept and handed out again
AllocateShared(objects, obj) ==
    IF objects = <<>> THEN <<obj>> ELSE objects

\* Creating an object: it gets an identity no earlier object has
Allocate(objects, obj) == Append(objects, obj)

LdInit ==
    /\ fs \in [FilePaths -> Files]
    /\ call = 0
    /\ lpc = "idle"
    /\ yaml_file = ""
    /\ prompt_key = ""
    /\ file = "none"
    /\ config = NoValue
    /\ template_content = NoValue
    /\ template = NoObject
    /\ heap = <<>>
    /\ result = [c \in Calls |-> NoResult]
    /\ reads = [c \in Calls |-> 0]
    /\ steps = [c \in Calls |-> <<>>]

\* The frame of the current call is given up: its locals are gone, and the
\* with block has closed the file if it was open
Unwind ==
    /\ yaml_file' = ""
    /\ prompt_key' = ""
    /\ file' = "none"
    /\ config' = NoValue
    /\ template_content' = NoValue
    /\ template' = NoObject

\* An exception of kind err leaves the current call
Raise(err) ==
    /\ result' = [result EXCEPT
                    ![call] = [kind |-> "raise", template |-> NoObject,
                               err |-> err]]
    /\ lpc' = "raised"
    /\ Unwind

\* A caller calls prompt_template_config(yaml_file, prompt_key): a new frame,
\* with no local bound yet.  The function is synchronous, so the calls
\* follow one another.
Call ==
    /\ lpc \in {"idle", "returned", "raised"}
    /\ call < NumCalls
    /\ call' = call + 1
    /\ \E path \in FilePaths, key \in PromptKeys :
          /\ yaml_file' = path
          /\ prompt_key' = key
    /\ lpc' = "L5"
    /\ UNCHANGED <<fs, file, config, template_content, template, heap,
                   result, reads, steps>>
    /\ UNCHANGED mwVars

\* with open(yaml_file, "r") as file:
OpenFile ==
    /\ lpc = "L5"
    /\ steps' = [steps EXCEPT ![call] = Append(@, "open")]
    /\ LET opened == Open(fs, yaml_file) IN
         IF opened.ok
         THEN /\ file' = "open"
              /\ lpc' = "L6"
              /\ UNCHANGED <<result, yaml_file, prompt_key, config,
                             template_content, template>>
         ELSE Raise(opened.err)
    /\ UNCHANGED <<fs, call, heap, reads>>
    /\ UNCHANGED mwVars

\* config = yaml.safe_load(file), and the end of the with block
Load ==
    /\ lpc = "L6"
    /\ steps' = [steps EXCEPT ![call] = Append(@, "parse")]
    /\ reads' = [reads EXCEPT ![call] = @ + 1]
    /\ LET loaded == safe_load(fs[yaml_file].lines) IN
         IF loaded.ok
         THEN /\ config' = loaded.val
              /\ file' = "closed"
              /\ lpc' = "L8"
              /\ UNCHANGED <<result, yaml_file, prompt_key, template_content,
                             template>>
         ELSE Raise(loaded.err)
    /\ UNCHANGED <<fs, call, heap>>
    /\ UNCHANGED mwVars

\* template_content = config["prompts"][prompt_key]
LookupKey ==
    /\ lpc = "L8"
    /\ steps' = [steps EXCEPT ![call] = Append(@, "lookup")]
    /\ LET found == Lookup(config, prompt_key) IN
         IF found.ok
         THEN /\ template_content' = found.val
              /\ lpc' = "L9"
              /\ UNCHANGED <<result, yaml_file, prompt_key, file, config,
                             template>>
         ELSE Raise(found.err)
    /\ UNCHANGED <<fs, call, heap, reads>>
    /\ UNCHANGED mwVars

\* template = Template(template_content)
Compile ==
    /\ lpc = "L9"
    /\ steps' = [steps EXCEPT ![call] = Append(@, "compile")]
    /\ LET compiled == Template(template_content) IN
         IF compiled.ok
         THEN /\ heap' = Allocate(heap, compiled.val)
              /\ template' = Len(heap')
              /\ lpc' = "L11"
              /\ UNCHANGED <<result, yaml_file, prompt_key, file, config,
                             template_content>>
         ELSE /\ Raise(compiled.err)
              /\ UNCHANGED heap
    /\ UNCHANGED <<fs, call, reads>>
    /\ UNCHANGED mwVars

\* return template
ReturnTemplate ==
    /\ lpc = "L11"
    /\ result' = [result EXCEPT
                    ![call] = [kind |-> "return", template |-> template,
                               err |-> ""]]
    /\ lpc' = "returned"
    /\ Unwind
    /\ UNCHANGED <<fs, call, heap, reads, steps>>
    /\ UNCHANGED mwVars

\* From line 8 on the function runs to its end on its locals alone, so an
\* edit of the file made then is the same as one made after it finished
EditVisible == lpc \notin {"L8", "L9", "L11"}

\* Outside the program, the file is created empty, or edited in place: a line
\* is added at its end, or its last line is removed
WriteFile ==
    /\ EditVisible
    /\ \E path \in FilePaths :
          \/ /\ ~fs[path].exists
             /\ fs' = [fs EXCEPT ![path] = FileOf(<<>>)]
          \/ /\ fs[path].exists
             /\ Len(fs[path].lines) < MaxLines
             /\ \E line \in LineAlphabet :
                   fs' = [fs EXCEPT ![path] = FileOf(Append(@.lines, line))]
          \/ /\ fs[path].exists
             /\ fs[path].lines # <<>>
             /\ fs' = [fs EXCEPT ![path] =
                          FileOf(SubSeq(@.lines, 1, Len(@.lines) - 1))]
    /\ UNCHANGED <<call, lpc, yaml_file, prompt_key, file, config,
                   template_content, template, heap, result, reads, steps>>
    /\ UNCHANGED mwVars

\* Outside the program, the file is removed (not while a call holds it open)
DeleteFile ==
    /\ EditVisible
    /\ \E path \in FilePaths :
          /\ fs[path].exists
          /\ ~(file = "open" /\ yaml_file = path)
          /\ fs' = [fs EXCEPT ![path] = NoFile]
    /\ UNCHANGED <<call, lpc, yaml_file, prompt_key, file, config,
                   template_content, template, heap, result, reads, steps>>
    /\ UNCHANGED mwVars

(***************************************************************************)
(* Specifications                                                          *)
(***************************************************************************)
vars == <<mwVars, ldVars>>

\* The loader before any call, with no configuration file
LdQuiet ==
    /\ LdInit
    /\ fs = [path \in FilePaths |-> NoFile]

\* The middleware, from the state before any request
Init == MwInit /\ LdQuiet

Next ==
    \E r \in Requests :
        \/ Arrive(r)
        \/ Generate(r)
        \/ StoreState(r)
        \/ LogStart(r)
        \/ CallNext(r)
        \/ Resume(r)
        \/ Propagate(r)
        \/ SetHeader(r)
        \/ LogCompleted(r)
        \/ Return(r)

Spec == Init /\ [][Next]_vars

\* The loader, from the state before any call, whatever the file is
LoaderInit == LdInit /\ MwInit

LoaderNext ==
    \/ Call
    \/ OpenFile
    \/ Load
    \/ LookupKey
    \/ Compile
    \/ ReturnTemplate
    \/ WriteFile
    \/ DeleteFile

LoaderSpec == LoaderInit /\ [][LoaderNext]_vars

(***************************************************************************)
(* Properties of RequestIDMiddleware.dispatch                              *)
(***************************************************************************)
\* The records request r's dispatch has logged, in order
RecordsOf(r) == SelectSeq(logs, LAMBDA l : l.task = r)

\* The values of the header entries named k, in order
ValuesOf(list, k) ==
    LET found == FoundIndexes(list, k, 1)
    IN  [j \in 1..Len(found) |-> list[found[j]][2]]

\* The header entries with another name than k, in order
OtherThan(list, k) == SelectSeq(list, LAMBDA h : h[1] # k)

StartRecord(r) ==
    LogRecord(r, "Request started", passed[r], request_id[r])
CompletedRecord(r) ==
    LogRecord(r, "Request completed", passed[r], request_id[r])

Generated(r) == request_id[r] # NoId
Stored(r) == mwWrites[r] # <<>>
StartLogged(r) == Len(RecordsOf(r)) >= 1
Invoked(r) == calls[r] > 0
Answered(r) == produced[r] # NoResponse
HeaderSet(r) == headerSets[r] > 0
CompletedLogged(r) == Len(RecordsOf(r)) >= 2
Returned(r) == outcome[r].kind = "return"
Raised(r) == outcome[r].kind = "raise"
InFlight(r) == Generated(r) /\ ~Returned(r) /\ ~Raised(r)

\* C1: for a request whose downstream handler returned a response, the
\* X-Request-ID header of the response dispatch returns is the identifier
\* dispatch stored in request.state.request_id, and it is the identifier of
\* both the 'Request started' and the 'Request completed' record.
C1_SameIdentifier ==
    \A r \in Requests :
        Returned(r) =>
            /\ ValuesOf(outcome[r].response.headers, "x-request-id")
                   = <<request_id[r]>>
            /\ mwWrites[r] = << <<"state.request_id", request_id[r]>> >>
            /\ Len(RecordsOf(r)) = 2
            /\ RecordsOf(r)[1].event = "Request started"
            /\ RecordsOf(r)[1].request_id = request_id[r]
            /\ RecordsOf(r)[2].event = "Request completed"
            /\ RecordsOf(r)[2].request_id = request_id[r]

\* A request has returned a response that already carried the header, after
\* the downstream handler overwrote request.state.request_id
C1_Witness ==
    \E r \in Requests :
        /\ Returned(r)
        /\ ValuesOf(produced[r].headers, "x-request-id") = <<"a", "b">>
        /\ request[r].state.request_id = "spoofed"

\* C2 as stated: two and only two records per request, started then
\* completed, whether call_next succeeds or fails.
C2_TwoRecordsAlways ==
    \A r \in Requests :
        (Returned(r) \/ Raised(r)) =>
            RecordsOf(r) = <<StartRecord(r), CompletedRecord(r)>>

\* C2 amended: a request whose call_next returned a response has logged two
\* and only two records, started then completed; a request whose call_next
\* raised has logged the started record only; and at no moment has a request
\* logged anything but a prefix of <<started, completed>>.
C2_TwoRecordsOnSuccess ==
    \A r \in Requests :
        /\ Returned(r) =>
              RecordsOf(r) = <<StartRecord(r), CompletedRecord(r)>>
        /\ Raised(r) => RecordsOf(r) = <<StartRecord(r)>>
        /\ Len(RecordsOf(r)) <= 2
        /\ Len(RecordsOf(r)) >= 1 =>
              RecordsOf(r)[1].event = "Request started"
        /\ Len(RecordsOf(r)) = 2 =>
              RecordsOf(r)[2].event = "Request completed"

\* One request has failed downstream and another has completed
C2_Witness ==
    \E r1, r2 \in Requests :
        /\ Raised(r1) /\ Len(RecordsOf(r1)) = 1
        /\ Returned(r2) /\ Len(RecordsOf(r2)) = 2

\* C3: when call_next raises, the same exception leaves dispatch, dispatch
\* has set no header on any response, and call_next was invoked exactly once
\* (and is never invoked more than once for a request).
C3_FailurePropagates ==
    \A r \in Requests :
        /\ calls[r] <= 1
        /\ thrown[r] # NoException =>
              /\ outcome[r] = [kind |-> "raise", response |-> NoResponse,
                               exc |-> thrown[r]]
              /\ headerSets[r] = 0
              /\ response[r] = NoResponse
              /\ calls[r] = 1
              /\ pc[r] = "raised"

\* A request's call_next has raised an HTTPException
C3_Witness ==
    \E r \in Requests : thrown[r] = "HTTPException" /\ Raised(r)

\* A step of request r's dispatch itself (not of the framework or of the
\* downstream pipeline)
DispatchStep(r) ==
    /\ pc'[r] # pc[r]
    /\ pc[r] \notin {"idle", "await"}

\* C4 (state part): the response dispatch returns has the status code, the
\* body and every header other than X-Request-ID of the response call_next
\* produced, and request.state.request_id is the one attribute dispatch
\* wrote.
C4_ResponseFrame ==
    \A r \in Requests :
        Returned(r) =>
            /\ outcome[r].response.status_code = produced[r].status_code
            /\ outcome[r].response.body = produced[r].body
            /\ OtherThan(outcome[r].response.headers, "x-request-id")
                   = OtherThan(produced[r].headers, "x-request-id")
            /\ Len(ValuesOf(outcome[r].response.headers, "x-request-id")) = 1
            /\ mwWrites[r] = << <<"state.request_id", request_id[r]>> >>

\* C4 (step part): a step of dispatch changes nothing of the request but
\* state.request_id, and nothing of the response but its headers.
C4_StepFrame ==
    \A r \in Requests :
        DispatchStep(r) =>
            /\ request'[r] = [request[r] EXCEPT
                                !.state.request_id = request'[r].state.request_id]
            /\ response'[r] = [response[r] EXCEPT
                                 !.headers = response'[r].headers]

\* C4: the returned response is call_next's response with only the
\* X-Request-ID header added or overwritten, and the only request attribute
\* dispatch writes is state.request_id.
C4_OnlyHeaderAdded == [](C4_ResponseFrame) /\ [][C4_StepFrame]_vars

\* A returned 404 response that had other headers and the header itself
C4_Witness ==
    \E r \in Requests :
        /\ Returned(r)
        /\ outcome[r].response.status_code = 404
        /\ Len(produced[r].headers) = 3
        /\ Len(outcome[r].response.headers) = 2

\* C5: with requests interleaving at the await, every returned response
\* carries its own request's identifier and no other request's, every record
\* a request logs names its own identifier, and the identifiers of any two
\* requests that have generated one are distinct.
C5_Independent ==
    \A r \in Requests :
        /\ Returned(r) =>
              /\ ValuesOf(outcome[r].response.headers, "x-request-id")
                     = <<request_id[r]>>
              /\ \A o \in Requests \ {r} :
                    Generated(o) =>
                       outcome[r].response.headers[
                          FoundIndexes(outcome[r].response.headers,
                                       "x-request-id", 1)[1]][2]
                          # request_id[o]
        /\ \A i \in 1..Len(RecordsOf(r)) :
              RecordsOf(r)[i].request_id = request_id[r]
        /\ \A o \in Requests \ {r} :
              (Generated(r) /\ Generated(o)) => request_id[r] # request_id[o]

\* A request has returned while another, which started before it returned,
\* is still suspended at the await
C5_Witness ==
    \E r, o \in Requests :
        /\ r # o
        /\ Returned(r)
        /\ pc[o] = "await"
        /\ InFlight(o)

\* C10: the effects of one dispatch happen in the order generate, store,
\* start record, call_next, header, completion record, return; the request
\* handed to call_next already carries the identifier; a task that does not
\* hold the event loop is at the await (or not started, or finished); and
\* the header assignment and the completion record come only after
\* call_next has returned a response.
C10_StepOrder ==
    \A r \in Requests :
        /\ Returned(r) => CompletedLogged(r)
        /\ CompletedLogged(r) => HeaderSet(r)
        /\ HeaderSet(r) => Answered(r)
        /\ Answered(r) => Invoked(r)
        /\ Invoked(r) => StartLogged(r)
        /\ StartLogged(r) => Stored(r)
        /\ Stored(r) => Generated(r)
        /\ Invoked(r) => passed[r].state.request_id = request_id[r]
        /\ running # r => pc[r] \in {"idle", "await", "returned", "raised"}

\* A request is suspended at the await with the identifier in its context
\* while another request holds the event loop
C10_Witness ==
    \E r, o \in Requests :
        /\ pc[r] = "await"
        /\ passed[r].state.request_id = request_id[r]
        /\ request_id[r] # NoId
        /\ running = o
        /\ pc[o] = "L25"

(***************************************************************************)
(* Properties of prompt_template_config                                    *)
(***************************************************************************)
AllSteps == <<"open", "parse", "lookup", "compile">>

\* The document has a 'prompts' mapping with an entry for key
HasEntry(doc, key) ==
    /\ doc.tag = "dict"
    /\ "prompts" \in DOMAIN doc.val
    /\ doc.val["prompts"].tag = "dict"
    /\ key \in DOMAIN doc.val["prompts"].val

EntryOf(doc, key) == doc.val["prompts"].val[key]

\* The kinds of failure each step can end in
KindsOf(step) ==
    CASE step = "open" -> {"FileNotFoundError"}
      [] step = "parse" -> {"YAMLError"}
      [] step = "lookup" -> {"KeyError", "TypeError"}
      [] OTHER -> {"TemplateSyntaxError", "TypeError"}

\* C6 as stated: whatever the file parses to, when the 'prompts' level or the
\* prompt_key entry under it is absent, the lookup fails with a KeyError (and
\* no other kind) and no template is compiled.
C6_AbsentKeyIsKeyError ==
    [][ (lpc = "L8" /\ lpc' # lpc /\ ~HasEntry(config, prompt_key)) =>
            /\ lpc' = "raised"
            /\ result'[call].err = "KeyError"
            /\ heap' = heap ]_vars

\* C7 (state part): the steps attempted are a prefix of open, parse, lookup,
\* compile; a step is attempted only after the ones before it succeeded; a
\* failed call surfaces a failure of the last step it attempted and has no
\* template; a FileNotFoundError comes with no read and no parse; a
\* TemplateSyntaxError comes only with all four steps attempted.
C7_FirstFailureState ==
    /\ \A c \in Calls :
          /\ Len(steps[c]) <= 4
          /\ steps[c] = SubSeq(AllSteps, 1, Len(steps[c]))
          /\ result[c].kind = "raise" =>
                /\ steps[c] # <<>>
                /\ result[c].err \in KindsOf(steps[c][Len(steps[c])])
                /\ result[c].template = NoObject
          /\ result[c].kind = "return" =>
                steps[c] = AllSteps /\ result[c].template # NoObject
          /\ result[c].err = "FileNotFoundError" =>
                steps[c] = <<"open">> /\ reads[c] = 0
          /\ result[c].err = "TemplateSyntaxError" => steps[c] = AllSteps
          /\ Len(steps[c]) >= 2 <=> reads[c] = 1
    /\ file = "open" <=> lpc = "L6"
    /\ config # NoValue <=> lpc \in {"L8", "L9", "L11"}
    /\ template_content # NoValue <=> lpc \in {"L9", "L11"}
    /\ template # NoObject <=> lpc = "L11"
    /\ lpc = "L6" => steps[call] = SubSeq(AllSteps, 1, 1)
    /\ lpc = "L8" => steps[call] = SubSeq(AllSteps, 1, 2)
    /\ lpc = "L9" => steps[call] = SubSeq(AllSteps, 1, 3)
    /\ lpc = "L11" => steps[call] = AllSteps
    /\ lpc \in {"L9", "L11"} =>
          /\ HasEntry(config, prompt_key)
          /\ template_content = EntryOf(config, prompt_key)

\* C7 (step part): opening a path that does not exist fails with a
\* FileNotFoundError, before any read or parse; and a TemplateSyntaxError is
\* raised by the compile step, on a str that the lookup found and that does
\* not parse as a template.
C7_FailureStep ==
    /\ (lpc = "L5" /\ lpc' # lpc /\ ~fs[yaml_file].exists) =>
          /\ lpc' = "raised"
          /\ result'[call].err = "FileNotFoundError"
          /\ steps'[call] = <<"open">>
          /\ reads'[call] = 0
          /\ config' = NoValue
    /\ (lpc' # lpc /\ lpc' = "raised"
           /\ result'[call].err = "TemplateSyntaxError") =>
          /\ lpc = "L9"
          /\ template_content = EntryOf(config, prompt_key)
          /\ template_content.tag = "str"
          /\ ~ParseTemplate(template_content.val, 1, "data", "", <<>>).ok
          /\ heap' = heap

\* C7: the steps run in the order open, parse, lookup, compile, and the
\* failure surfaced is that of the first step that fails, with no later step
\* attempted and no template returned.
C7_FirstFailure == [](C7_FirstFailureState) /\ [][C7_FailureStep]_vars

\* One call failed on a missing file and a later one on template syntax
C7_Witness ==
    /\ call = 2
    /\ result[1].err = "FileNotFoundError"
    /\ result[2].err = "TemplateSyntaxError"

\* C8 (state part): a call that is at its return statement has found a str
\* under prompts[prompt_key] and its template is the compilation of exactly
\* that string; for the text 'Hello, {{ name }}!' it renders with
\* name = 'World' to 'Hello, World!'.
C8_CompiledState ==
    lpc = "L11" =>
        /\ HasEntry(config, prompt_key)
        /\ EntryOf(config, prompt_key).tag = "str"
        /\ template \in 1..Len(heap)
        /\ heap[template].val =
              ParseTemplate(EntryOf(config, prompt_key).val, 1, "data", "",
                            <<>>).nodes
        /\ Text(EntryOf(config, prompt_key).val) = "Hello, {{ name }}!" =>
              render(heap[template].val, [name |-> "World"]) = "Hello, World!"
        /\ Text(EntryOf(config, prompt_key).val) = "Hi!}}" =>
              render(heap[template].val, [name |-> "World"]) = "Hi!}}"

\* C8 (step part): the return statement hands that template object, as it
\* is, to the caller.
C8_ReturnStep ==
    (lpc = "L11" /\ lpc' # lpc) =>
        /\ lpc' = "returned"
        /\ result'[call] = [kind |-> "return", template |-> template,
                            err |-> ""]
        /\ heap' = heap

\* C8: when prompts[prompt_key] is a valid template string, the call returns
\* a template compiled from exactly that string.
C8_CompiledFromEntry == [](C8_CompiledState) /\ [][C8_ReturnStep]_vars

\* The document has greeting under prompts and another greeting at its top
\* level, and the call for 'greeting' is returning the template that renders
\* to 'Hello, World!'
C8_Witness ==
    /\ lpc = "L11"
    /\ prompt_key = "greeting"
    /\ config = PyDict([prompts |-> PyDict([greeting |-> PyStr(HelloSource)]),
                        greeting |-> PyStr(PlainSource)])
    /\ render(heap[template].val, [name |-> "World"]) = "Hello, World!"

\* A step of the function itself (not of whoever edits the file)
LoaderStep == lpc' # lpc

\* C9 (state part): a call reads the file at most once and a call that
\* returned read it exactly once; the template of the current call is the
\* newest object and is the compilation of the entry of the document this
\* call parsed; two calls that returned have distinct Template objects, one
\* created per call that compiled.
C9_NoCacheState ==
    /\ \A c \in Calls :
          /\ reads[c] <= 1
          /\ result[c].kind = "return" => reads[c] = 1
          /\ \A d \in Calls :
                (c # d /\ result[c].kind = "return"
                       /\ result[d].kind = "return") =>
                    result[c].template # result[d].template
    /\ Len(heap) = Cardinality({c \in Calls : Len(steps[c]) = 4
                                   /\ ~(result[c].kind = "raise")})
    /\ lpc = "L11" =>
          /\ template = Len(heap)
          /\ Template(EntryOf(config, prompt_key)) = Ok(heap[template])

\* C9 (step part): the parse step reads the file as it is at that moment,
\* and a step of the function changes neither the file nor a Template object
\* that exists already.
C9_NoCacheStep ==
    LoaderStep =>
        /\ fs' = fs
        /\ Len(heap') >= Len(heap)
        /\ SubSeq(heap', 1, Len(heap)) = heap
        /\ lpc = "L6" =>
              LET now == safe_load(fs[yaml_file].lines)
              IN  /\ now.ok => config' = now.val /\ lpc' = "L8"
                  /\ ~now.ok => lpc' = "raised"
                  /\ reads'[call] = reads[call] + 1

\* C9: no cache and no global state: one read of the file per call, a result
\* that reflects the file as the call read it, and a Template object of its
\* own for every call.
C9_NoCache == [](C9_NoCacheState) /\ [][C9_NoCacheStep]_vars

\* Two calls returned different templates, the file having been edited in
\* between
C9_Witness ==
    /\ call = 2
    /\ result[1].kind = "return"
    /\ result[2].kind = "return"
    /\ heap[result[1].template] # heap[result[2].template]
====
